---- MODULE Spec2Model ----
(***************************************************************************)
(* Session and authorization subsystem of the ID-verification client:      *)
(* AuthProvider (contexts/AuthContext), APIProvider (contexts/APIContext)  *)
(* and the gating of App.tsx.                                              *)
(*                                                                         *)
(* Every async function is cut at its awaits.  An action is the code that  *)
(* runs when one awaited operation settles: it applies the effect of that  *)
(* operation (a store write, a server answer), then runs the continuation  *)
(* up to the next await.  When a call settles, the continuation of its     *)
(* caller (the screen's finally block) runs in the same turn, so a slot    *)
(* goes back to "idle" in the step that settles it and the outcome is put  *)
(* in `delivered`, which says what the last step handed to a caller.      *)
(* `sent` and `received` hold the HTTP request the last step dispatched    *)
(* and the answer it received; `last` is a history variable.               *)
(*                                                                         *)
(* Optional values are sequences: <<>> is null/absent, <<v>> is v.         *)
(***************************************************************************)
EXTENDS Integers, Sequences, FiniteSets, TLC

\* ---------------------------------------------------------------- bounds
NumReq == 2          \* pipeline requests that can be in flight together
MaxCalls == 2        \* calls of one screen that can await their answer together
MaxPage == 2         \* the last page loadMore asks for
MaxTimers == 2       \* timeouts of the search bar that can be pending together

Req == 1..NumReq
Call == 1..MaxCalls

\* ---------------------------------------------------------------- values
Null == <<>>
Some(v) == <<v>>
Undefined == "undefined"

UserKeys == {"id", "email", "name", "phone", "role", "is_approved", "created_at"}

\* property read on a JavaScript object: a missing key reads as undefined
Prop(o, k) == IF k \in DOMAIN o THEN o[k] ELSE Undefined

\* bodies the server can answer GET /auth/me with (phone is optional)
MePayloads ==
  { [id |-> "1", email |-> "a@x.com", name |-> "A", phone |-> "555",
     role |-> "police", is_approved |-> "true", created_at |-> "2024-01-01"],
    [id |-> "2", email |-> "b@x.com", name |-> "B",
     role |-> "admin", is_approved |-> "true", created_at |-> "2024-01-02"] }

\* access tokens the server can answer POST /auth/login with
Tokens == {"T1", "T2"}

\* the User object login builds from the /auth/me body, field by field
BuildUser(p) == [k \in UserKeys |-> Prop(p, k)]

\* JSON.stringify of an object: keys whose value is undefined are dropped
Stringify(o) ==
  [wellFormed |-> TRUE,
   fields |-> [k \in {x \in DOMAIN o : o[x] # Undefined} |-> o[k]]]

ParseNeverThrows(t) == FALSE

\* JSON.parse: throws on text that is not JSON
ParseThrows(t) == ~t.wellFormed
Parse(t) == t.fields

\* two objects that no property read can tell apart
SameObject(a, b) == \A k \in UserKeys : Prop(a, k) = Prop(b, k)

EmptyStore == [user |-> Null, token |-> Null]

RemoveItemKeeps(s, key) == s

\* AsyncStorage.removeItem(key)
RemoveItem(s, key) == [s EXCEPT ![key] = Null]

\* ---------------------------------------------------------------- state
VARIABLES
  store,       \* AsyncStorage: keys 'user' and 'token'
  user,        \* AuthProvider state: user
  loading,     \* AuthProvider state: loading
  restorePc,   \* loadStoredUser: "getUser", "getToken", "done"
  storedUser,  \* loadStoredUser local
  login,       \* login(): [pc, token, user]
  logoutPc,    \* logout(): "idle", "rmUser", "rmToken"
  regPc,       \* register(): "idle", "fetch"
  req,         \* pipeline requests: [pc, auth], auth being the header of
               \* the request whose answer is awaited
  sent,        \* the HTTP request the last step dispatched: [url, auth, body]
  received,    \* the HTTP answer the last step received: [url, status, body]
  delivered,   \* what the last step handed to a caller: [op, result, message]
  last,        \* history: the last login() or logout() that completed, while
               \* no later login, logout or 401 branch has taken a step
  form,        \* the text fields of the auth screens (useState)
  logsScreen,         \* officer LogsScreen: its useState values and the
                      \* loadLogs calls that await their answer
  adminLogsScreen,    \* AdminLogsScreen: its useState values, its timers
                      \* and its loadLogs calls
  approvalsScreen     \* PendingApprovalsScreen: its useState values, its
                      \* dialog and its calls

vars == <<store, user, loading, restorePc, storedUser, login, logoutPc, regPc,
          req, sent, received, delivered, last, form,
          logsScreen, adminLogsScreen, approvalsScreen>>

authVars == <<user, loading>>
restoreVars == <<restorePc, storedUser>>
taskVars == <<login, logoutPc, regPc, req>>
sessionVars == <<store, authVars, restoreVars, taskVars, last, form>>
screenVars == <<logsScreen, adminLogsScreen, approvalsScreen>>

IdleLogin == [pc |-> "idle", token |-> Null, user |-> Null]
IdleReq == [pc |-> "idle", auth |-> Null]

\* a call settles: its caller receives a result (and an Error message)
Settled(op, result, message) == [op |-> op, result |-> result, message |-> message]
Nothing == Settled("none", "none", "none")

\* a request is dispatched: its url, Authorization header and body
Http(url, auth, body) == [url |-> url, auth |-> auth, body |-> body]
NoBody == [x \in {} |-> ""]
NotSent == Http("none", Null, NoBody)

\* the header value `Bearer ${token}`
Bearer(token) == <<"Bearer", token>>

\* an answer arrives: the url asked, the status class and the body text
Answer(url, status, body) == [url |-> url, status |-> status, body |-> body]
NoText == [wellFormed |-> TRUE, fields |-> NoBody]
NotReceived == Answer("none", "none", NoText)

\* history of the calls that completed
Completed(op, u) == [op |-> op, user |-> u]
NoHistory == Completed("none", Null)

\* text is a sequence of characters; every field of a screen starts as ''
Form(email, password, confirmPassword, name, phone) ==
  [email |-> email, password |-> password, confirmPassword |-> confirmPassword,
   name |-> name, phone |-> phone]
EmptyForm == Form(<<>>, <<>>, <<>>, <<>>, <<>>)

\* a call of a screen that awaits the answer of the pipeline
Fetch(arg) == [pc |-> "fetch", arg |-> arg]
NoCalls(arg) == [c \in Call |-> [pc |-> "idle", arg |-> arg]]

\* a screen that is not mounted has no state
UnmountedLogs == [mounted |-> FALSE]
UnmountedAdminLogs == [mounted |-> FALSE]
UnmountedApprovals == [mounted |-> FALSE]

\* LogsScreen when it is mounted: the initial values of its useState calls
MountedLogs ==
  [mounted |-> TRUE, logs |-> <<>>, loading |-> TRUE, refreshing |-> FALSE,
   page |-> 0, hasMore |-> TRUE, calls |-> NoCalls(0)]

\* the filters of AdminLogsScreen: `limit: 50, offset: 0`
AdminLimit == 50
Filters(result) ==
  [verification_result |-> result, limit |-> AdminLimit, offset |-> 0]
InitialFilters == Filters(Undefined)

\* AdminLogsScreen when it is mounted
MountedAdminLogs ==
  [mounted |-> TRUE, logs |-> <<>>, loading |-> TRUE, refreshing |-> FALSE,
   searchQuery |-> "", filters |-> InitialFilters,
   timers |-> <<>>,
   calls |-> NoCalls([params |-> InitialFilters, refresh |-> FALSE])]

\* PendingApprovalsScreen when it is mounted
MountedApprovals ==
  [mounted |-> TRUE, users |-> <<>>, loading |-> TRUE, refreshing |-> FALSE,
   processing |-> Null, dialog |-> Null,
   calls |-> NoCalls([op |-> "none", userId |-> "", refresh |-> FALSE])]

Init ==
  /\ store = EmptyStore
  /\ user = Null
  /\ loading = TRUE
  /\ restorePc = "getUser"
  /\ storedUser = Null
  /\ login = IdleLogin
  /\ logoutPc = "idle"
  /\ regPc = "idle"
  /\ req = [r \in Req |-> IdleReq]
  /\ sent = NotSent
  /\ received = NotReceived
  /\ delivered = Nothing
  /\ last = NoHistory
  /\ form = EmptyForm
  /\ logsScreen = UnmountedLogs
  /\ adminLogsScreen = UnmountedAdminLogs
  /\ approvalsScreen = UnmountedApprovals

\* ---------------------------------------------------------------- App.tsx
\* what AppContent renders
Screen ==
  IF loading THEN "loading"
  ELSE IF user # Null THEN "main" ELSE "auth"

\* Any AsyncStorage call may throw (the second disjunct of the actions that
\* await one), and the process may be restarted, at any time.

FinallySkipped(l) == l

\* the finally block of loadStoredUser: setLoading(false)
Finally(l) == FALSE

RestoreEager(l) == FALSE

\* the loading flag while loadStoredUser waits for its second read: nothing
\* sets it before the finally block
RestorePending(l) == l

\* ------------------------------------------------ AuthProvider: restore
\* loadStoredUser after `await AsyncStorage.getItem('user')`
RestoreGetUser ==
  /\ restorePc = "getUser"
  /\ \/ /\ storedUser' = store.user
        /\ restorePc' = "getToken"
        /\ delivered' = Nothing
        /\ UNCHANGED user
        /\ loading' = RestorePending(loading)
     \/ \* getItem throws: catch, finally
        /\ user' = Null
        /\ loading' = Finally(loading)
        /\ restorePc' = "done"
        /\ delivered' = Settled("restore", "resolved", "storage error")
        /\ UNCHANGED storedUser
  /\ sent' = NotSent
  /\ UNCHANGED <<store, taskVars>>
  /\ received' = NotReceived
  /\ UNCHANGED last
  /\ UNCHANGED form
  /\ UNCHANGED screenVars

\* the user loadStoredUser sets once both reads have returned; storedToken is
\* only logged
RestoredUser(sUser, sToken) ==
  IF sUser # Null
  THEN IF ParseThrows(sUser[1]) THEN Null ELSE Some(Parse(sUser[1]))
  ELSE Null

\* loadStoredUser after `await AsyncStorage.getItem('token')`
RestoreGetToken ==
  /\ restorePc = "getToken"
  /\ \/ /\ user' = RestoredUser(storedUser, store.token)
        /\ delivered' = Settled("restore", "resolved",
                                IF storedUser # Null /\ ParseThrows(storedUser[1])
                                THEN "parse error" ELSE "none")
     \/ \* getItem throws: catch
        /\ user' = Null
        /\ delivered' = Settled("restore", "resolved", "storage error")
  /\ loading' = Finally(loading)
  /\ restorePc' = "done"
  /\ storedUser' = Null
  /\ sent' = NotSent
  /\ UNCHANGED <<store, taskVars>>
  /\ received' = NotReceived
  /\ UNCHANGED last
  /\ UNCHANGED form
  /\ UNCHANGED screenVars

\* -------------------------------------------------- AuthProvider: login
\* LoginScreen is mounted and its button enabled; login(email, password)
\* sends POST /auth/login
LoginCall(email, password) ==
  /\ Screen = "auth"
  /\ login.pc = "idle"
  /\ login' = [login EXCEPT !.pc = "fetchLogin"]
  /\ delivered' = Nothing
  /\ sent' = Http("POST /auth/login", Null,
                  [username |-> email, password |-> password])
  /\ UNCHANGED <<store, authVars, restoreVars, logoutPc, regPc, req>>
  /\ received' = NotReceived
  /\ last' = NoHistory
  /\ UNCHANGED form
  /\ UNCHANGED screenVars

\* the Login button pressed with credentials that pass the checks of the screen
LoginStart == LoginCall("a@x.com", "secret")

DetailOnly(text, default) ==
  IF text.wellFormed THEN Prop(text.fields, "detail") ELSE default

\* message of the Error thrown on a non-2xx answer whose body is `text`:
\* the body's detail, or the default when it has none or is not JSON
DetailOr(text, default) ==
  IF text.wellFormed /\ Prop(text.fields, "detail") \notin {Undefined, ""}
  THEN text.fields["detail"]
  ELSE default

\* error bodies a non-2xx answer can carry
ErrorBodies ==
  { [wellFormed |-> TRUE, fields |-> [detail |-> "Account not approved"]],
    [wellFormed |-> TRUE, fields |-> [error |-> "x"]],
    [wellFormed |-> FALSE, fields |-> [error |-> "x"]] }

LoginRejectedKeepsToken(msg) ==
  /\ login' = [login EXCEPT !.pc = "idle"]
  /\ delivered' = Settled("login", "rejected", msg)
  /\ sent' = NotSent

LoginRetried(msg) ==
  /\ login' = [login EXCEPT !.pc = "fetchLogin", !.token = Null, !.user = Null]
  /\ delivered' = Nothing
  /\ sent' = Http("POST /auth/login", Null,
                  [username |-> "a@x.com", password |-> "secret"])

\* login() throws: the catch rethrows, nothing else runs, data.access_token
\* goes out of scope
LoginRejected(msg) ==
  /\ login' = IdleLogin
  /\ delivered' = Settled("login", "rejected", msg)
  /\ sent' = NotSent

\* login() after `await fetch(LOGIN)` (and the read of the body)
LoginTokenResp ==
  /\ login.pc = "fetchLogin"
  /\ \/ \E t \in Tokens :               \* 2xx {access_token: t}: GET /auth/me
          /\ login' = [login EXCEPT !.pc = "fetchMe", !.token = Some(t)]
          /\ delivered' = Nothing
          /\ sent' = Http("GET /auth/me", Some(Bearer(t)), NoBody)
          /\ received' = Answer("POST /auth/login", "2xx", NoText)
     \/ \E b \in ErrorBodies :          \* non-2xx
          /\ LoginRejected(DetailOr(b, "Login failed"))
          /\ received' = Answer("POST /auth/login", "non2xx", b)
     \/ /\ LoginRejected("Network request failed")  \* fetch throws
        /\ received' = Answer("POST /auth/login", "transport", NoText)
  /\ UNCHANGED <<store, authVars, restoreVars, logoutPc, regPc, req, last>>
  /\ UNCHANGED form
  /\ UNCHANGED screenVars

\* login() after `await fetch(ME)` (and the read of the body)
LoginMeResp ==
  /\ login.pc = "fetchMe"
  /\ \/ /\ \E p \in MePayloads :        \* 2xx: build user, setItem('user')
             login' = [login EXCEPT !.pc = "setUser",
                                    !.user = Some(BuildUser(p))]
        /\ delivered' = Nothing
        /\ sent' = NotSent
        /\ received' = Answer("GET /auth/me", "2xx", NoText)
     \/ /\ LoginRejected("Failed to get user details")     \* non-2xx
        /\ received' = Answer("GET /auth/me", "non2xx", NoText)
     \/ /\ LoginRejected("Network request failed")  \* fetch throws
        /\ received' = Answer("GET /auth/me", "transport", NoText)
  /\ UNCHANGED <<store, authVars, restoreVars, logoutPc, regPc, req, last>>
  /\ UNCHANGED form
  /\ UNCHANGED screenVars

\* login() after `await AsyncStorage.setItem('user', JSON.stringify(user))`
LoginSetUser ==
  /\ login.pc = "setUser"
  /\ \/ /\ store' = [store EXCEPT !.user = Some(Stringify(login.user[1]))]
        /\ login' = [login EXCEPT !.pc = "setToken"]
        /\ delivered' = Nothing
        /\ sent' = NotSent
     \/ \* setItem throws: rethrown
        /\ LoginRejected("storage error")
        /\ UNCHANGED store
  /\ received' = NotReceived
  /\ UNCHANGED <<authVars, restoreVars, logoutPc, regPc, req, last>>
  /\ UNCHANGED form
  /\ UNCHANGED screenVars

\* login() after `await AsyncStorage.setItem('token', data.access_token)`:
\* setUser(user) and resolve
LoginSetToken ==
  /\ login.pc = "setToken"
  /\ \/ /\ store' = [store EXCEPT !.token = login.token]
        /\ user' = login.user
        /\ login' = IdleLogin
        /\ delivered' = Settled("login", "resolved", "none")
        /\ sent' = NotSent
        /\ last' = Completed("login", login.user)
     \/ \* setItem throws: rethrown
        /\ LoginRejected("storage error")
        /\ UNCHANGED <<store, user, last>>
  /\ received' = NotReceived
  /\ UNCHANGED <<loading, restoreVars, logoutPc, regPc, req>>
  /\ UNCHANGED form
  /\ UNCHANGED screenVars

\* ----------------------------------------------- AuthProvider: register
\* the JSON body register() posts to /auth/register
RegisterBody(email, password, name, phone) ==
  [email |-> email, password |-> password, name |-> name, phone |-> phone,
   role |-> "police"]

\* phone field of the register form when the button is pressed
RegPhones == {"", "555"}

\* RegisterScreen is mounted and its button enabled; register(email,
\* password, name, phone) sends POST /auth/register
RegisterCall(email, password, name, phone) ==
  /\ Screen = "auth"
  /\ regPc = "idle"
  /\ regPc' = "fetch"
  /\ sent' = Http("POST /auth/register", Null,
                  RegisterBody(email, password, name, phone))
  /\ delivered' = Nothing
  /\ UNCHANGED <<store, authVars, restoreVars, login, logoutPc, req>>
  /\ received' = NotReceived
  /\ UNCHANGED last
  /\ UNCHANGED form
  /\ UNCHANGED screenVars

\* the Register button pressed with fields that pass the checks of the screen
RegisterStart == \E ph \in RegPhones : RegisterCall("n@x.com", "secret1", "N", ph)

RegisterLogsIn(u) == Some(BuildUser(CHOOSE p \in MePayloads : p.role = "police"))

\* the user AuthProvider holds after register() has settled: register() never
\* calls setUser
RegisterKeeps(u) == u

RegisterIgnoresStatus(a) == Settled("register", "resolved", "none")

\* how register() settles on the answer `a` of fetch(REGISTER): `!response.ok`
\* throws the body's detail, a fetch that throws is rethrown
RegisterOutcome(a) ==
  IF a.status = "2xx" THEN Settled("register", "resolved", "none")
  ELSE IF a.status = "non2xx"
       THEN Settled("register", "rejected",
                    DetailOr(a.body, "Registration failed"))
       ELSE Settled("register", "rejected", "Network request failed")

\* register() after `await fetch(REGISTER)` (and the read of the body)
RegisterResp ==
  /\ regPc = "fetch"
  /\ \/ received' = Answer("POST /auth/register", "2xx", NoText)
     \/ \E b \in ErrorBodies :
          received' = Answer("POST /auth/register", "non2xx", b)
     \/ received' = Answer("POST /auth/register", "transport", NoText)
  /\ delivered' = RegisterOutcome(received')
  /\ UNCHANGED last
  /\ regPc' = "idle"
  /\ sent' = NotSent
  /\ user' = RegisterKeeps(user)
  /\ UNCHANGED <<store, loading, restoreVars, login, logoutPc, req>>
  /\ UNCHANGED form
  /\ UNCHANGED screenVars

\* ------------------------------------------------- AuthProvider: logout
\* the Logout button of MainTabs; logout() calls removeItem('user')
LogoutStart ==
  /\ Screen = "main"
  /\ logoutPc = "idle"
  /\ logoutPc' = "rmUser"
  /\ delivered' = Nothing
  /\ sent' = NotSent
  /\ UNCHANGED <<store, authVars, restoreVars, login, regPc, req>>
  /\ received' = NotReceived
  /\ last' = NoHistory
  /\ UNCHANGED form
  /\ UNCHANGED screenVars

LogoutCatchKeeps(u) == u

\* the user the catch block of logout() sets
LogoutCatchUser(u) == Null

LogoutEager(u) == Null

\* the user AuthProvider holds between the two removals of logout():
\* setUser(null) comes after both
LogoutPending(u) == u

\* logout() after `await AsyncStorage.removeItem('user')`
LogoutRmUser ==
  /\ logoutPc = "rmUser"
  /\ \/ /\ store' = RemoveItem(store, "user")
        /\ logoutPc' = "rmToken"
        /\ delivered' = Nothing
        /\ sent' = NotSent
        /\ user' = LogoutPending(user)
     \/ \* removeItem throws: catch
        /\ user' = LogoutCatchUser(user)
        /\ logoutPc' = "idle"
        /\ delivered' = Settled("logout", "resolved", "storage error")
        /\ sent' = NotSent
        /\ UNCHANGED store
  /\ UNCHANGED <<loading, restoreVars, login, regPc, req>>
  /\ received' = NotReceived
  /\ last' = IF logoutPc' = "idle"
             THEN Completed("logout, storage error", Null)
             ELSE NoHistory
  /\ UNCHANGED form
  /\ UNCHANGED screenVars

\* logout() after `await AsyncStorage.removeItem('token')`: setUser(null); the
\* browser cleanup that follows removes the same two keys again or throws
\* into the catch, which sets the user to null again
LogoutRmToken ==
  /\ logoutPc = "rmToken"
  /\ \/ /\ store' = RemoveItem(store, "token")
        /\ user' = Null
        /\ delivered' = Settled("logout", "resolved", "none")
        /\ sent' = NotSent
        /\ last' = Completed("logout", Null)
     \/ \* removeItem throws: catch
        /\ user' = LogoutCatchUser(user)
        /\ delivered' = Settled("logout", "resolved", "storage error")
        /\ sent' = NotSent
        /\ last' = Completed("logout, storage error", Null)
        /\ UNCHANGED store
  /\ received' = NotReceived
  /\ logoutPc' = "idle"
  /\ UNCHANGED <<loading, restoreVars, login, regPc, req>>
  /\ UNCHANGED form
  /\ UNCHANGED screenVars

\* ------------------------------------------------ APIProvider: pipeline
AuthHeaderAlways(token) ==
  Some(Bearer(IF token # Null THEN token[1] ELSE "null"))

\* the Authorization header the request interceptor sets for what
\* getItem('token') returned: `Bearer ${token}` if (token), none otherwise
AuthHeader(token) == IF token # Null THEN Some(Bearer(token[1])) ELSE Null

\* answers of the backend to a dispatched request
Answers == {"2xx", "401", "500", "transport"}

\* a screen of the authenticated graph calls api.get / api.post
ApiStart(r) ==
  /\ Screen = "main"
  /\ req[r].pc = "idle"
  /\ \A q \in Req : q < r => req[q].pc # "idle"   \* ids: lowest free first
  /\ req' = [req EXCEPT ![r] = [pc |-> "attach", auth |-> Null]]
  /\ delivered' = Nothing
  /\ sent' = NotSent
  /\ UNCHANGED <<store, authVars, restoreVars, login, logoutPc, regPc>>
  /\ received' = NotReceived
  /\ UNCHANGED last
  /\ UNCHANGED form
  /\ UNCHANGED screenVars

\* request interceptor after `await AsyncStorage.getItem('token')`
ApiAttach(r) ==
  /\ req[r].pc = "attach"
  /\ \/ /\ req' = [req EXCEPT ![r] = [pc |-> "inflight",
                                      auth |-> AuthHeader(store.token)]]
        /\ delivered' = Nothing
        /\ sent' = Http("api", AuthHeader(store.token), NoBody)
     \/ \* getItem throws: nothing is sent, the caller gets it
        /\ req' = [req EXCEPT ![r] = IdleReq]
        /\ delivered' = Settled("request", "rejected", "storage error")
        /\ sent' = NotSent
  /\ UNCHANGED <<store, authVars, restoreVars, login, logoutPc, regPc>>
  /\ received' = NotReceived
  /\ UNCHANGED last
  /\ UNCHANGED form
  /\ UNCHANGED screenVars

ClearedOnAnyError(a, s) == IF a = "2xx" THEN s ELSE EmptyStore

\* the store after the response interceptor has handled an answer other than
\* 401: a success is returned and an error rejected, neither touches a key
PassedThrough(a, s) == s

HandedSwallowed(a) == Settled("request", "resolved", a)

\* what the response interceptor hands the caller for an answer other than
\* 401: `(response) => response`, or Promise.reject(error)
Handed(a) ==
  Settled("request", IF a = "2xx" THEN "resolved" ELSE "rejected", a)

\* response interceptor: the answer arrives
ApiResponse(r) ==
  /\ req[r].pc = "inflight"
  /\ \E a \in Answers :
       /\ received' = Answer("api", a, NoText)
       /\ IF a = "401"
          THEN /\ req' = [req EXCEPT ![r] =              \* removeItem('user')
                                 [pc |-> "rmUser", auth |-> Null]]
               /\ delivered' = Nothing
               /\ sent' = NotSent
               /\ last' = NoHistory
               /\ UNCHANGED store
          ELSE /\ req' = [req EXCEPT ![r] = IdleReq]
               /\ delivered' = Handed(a)
               /\ sent' = NotSent
               /\ store' = PassedThrough(a, store)
               /\ UNCHANGED last
  /\ UNCHANGED <<authVars, restoreVars, login, logoutPc, regPc>>
  /\ UNCHANGED form
  /\ UNCHANGED screenVars

\* response interceptor after `await AsyncStorage.removeItem('user')`
ApiRmUser(r) ==
  /\ req[r].pc = "rmUser"
  /\ \/ /\ store' = RemoveItem(store, "user")
        /\ req' = [req EXCEPT ![r].pc = "rmToken"]
        /\ delivered' = Nothing
        /\ sent' = NotSent
     \/ \* removeItem throws: the handler rejects
        /\ req' = [req EXCEPT ![r] = IdleReq]
        /\ delivered' = Settled("request", "rejected", "401, storage error")
        /\ sent' = NotSent
        /\ UNCHANGED store
  /\ UNCHANGED <<authVars, restoreVars, login, logoutPc, regPc>>
  /\ received' = NotReceived
  /\ last' = NoHistory
  /\ UNCHANGED form
  /\ UNCHANGED screenVars

InvalidatedUserCleared(u) == Null

\* the user AuthProvider holds when the 401 branch has run: the interceptor
\* calls nothing of AuthProvider
InvalidatedUser(u) == u

\* response interceptor after `await AsyncStorage.removeItem('token')`:
\* Promise.reject(error)
ApiRmToken(r) ==
  /\ req[r].pc = "rmToken"
  /\ \/ /\ store' = RemoveItem(store, "token")
        /\ delivered' = Settled("request", "rejected", "401")
        /\ sent' = NotSent
     \/ \* removeItem throws: the handler rejects
        /\ delivered' = Settled("request", "rejected", "401, storage error")
        /\ sent' = NotSent
        /\ UNCHANGED store
  /\ user' = InvalidatedUser(user)
  /\ req' = [req EXCEPT ![r] = IdleReq]
  /\ UNCHANGED <<loading, restoreVars, login, logoutPc, regPc>>
  /\ received' = NotReceived
  /\ last' = NoHistory
  /\ UNCHANGED form
  /\ UNCHANGED screenVars

\* ---------------------------------------------------------------- process
\* the app is killed and started again: AsyncStorage survives, every useState
\* starts over and every pending promise is gone
Restart ==
  /\ user' = Null
  /\ loading' = TRUE
  /\ restorePc' = "getUser"
  /\ storedUser' = Null
  /\ login' = IdleLogin
  /\ logoutPc' = "idle"
  /\ regPc' = "idle"
  /\ req' = [r \in Req |-> IdleReq]
  /\ delivered' = Nothing
  /\ sent' = NotSent
  /\ UNCHANGED store
  /\ received' = NotReceived
  /\ UNCHANGED last
  /\ form' = EmptyForm
  /\ logsScreen' = UnmountedLogs
  /\ adminLogsScreen' = UnmountedAdminLogs
  /\ approvalsScreen' = UnmountedApprovals

Next ==
  \/ RestoreGetUser
  \/ RestoreGetToken
  \/ LoginStart
  \/ LoginTokenResp
  \/ LoginMeResp
  \/ LoginSetUser
  \/ LoginSetToken
  \/ RegisterStart
  \/ RegisterResp
  \/ LogoutStart
  \/ LogoutRmUser
  \/ LogoutRmToken
  \/ \E r \in Req : ApiStart(r)
  \/ \E r \in Req : ApiAttach(r)
  \/ \E r \in Req : ApiResponse(r)
  \/ \E r \in Req : ApiRmUser(r)
  \/ \E r \in Req : ApiRmToken(r)
  \/ Restart

Spec == Init /\ [][Next]_vars

\* ------------------------------------------------- launch over any store
\* a stored 'user' value that JSON.parse rejects
CorruptTexts == {[wellFormed |-> FALSE, fields |-> NoBody]}

\* values the 'user' key can hold when the app is launched
StoredTexts == {Stringify(BuildUser(p)) : p \in MePayloads} \cup CorruptTexts

\* the app is launched on a device whose store holds any value under each key
InitStored ==
  /\ store \in [user : {Null} \cup {Some(t) : t \in StoredTexts},
                token : {Null} \cup {Some(t) : t \in Tokens}]
  /\ user = Null
  /\ loading = TRUE
  /\ restorePc = "getUser"
  /\ storedUser = Null
  /\ login = IdleLogin
  /\ logoutPc = "idle"
  /\ regPc = "idle"
  /\ req = [r \in Req |-> IdleReq]
  /\ sent = NotSent
  /\ received = NotReceived
  /\ delivered = Nothing
  /\ last = NoHistory
  /\ form = EmptyForm
  /\ logsScreen = UnmountedLogs
  /\ adminLogsScreen = UnmountedAdminLogs
  /\ approvalsScreen = UnmountedApprovals

\* AuthProvider alone: restore, then login, register and logout, and restarts
NextStored ==
  \/ RestoreGetUser
  \/ RestoreGetToken
  \/ LoginStart
  \/ LoginTokenResp
  \/ LoginMeResp
  \/ LoginSetUser
  \/ LoginSetToken
  \/ RegisterStart
  \/ RegisterResp
  \/ LogoutStart
  \/ LogoutRmUser
  \/ LogoutRmToken
  \/ Restart

StoredSpec == InitStored /\ [][NextStored]_vars

\* every read of the store that loadStoredUser awaits settles
StoredFairSpec ==
  StoredSpec /\ WF_vars(RestoreGetUser) /\ WF_vars(RestoreGetToken)

\* ------------------------------------------------------------ auth screens
MinPassword == 6
MaxPassword == 72

\* the text made of n times the character c
Repeat(c, n) == [i \in 1..n |-> c]

\* characters the class \s matches
Whitespace == {" "}

\* /^[^\s@]+@[^\s@]+\.[^\s@]+$/.test(s)
EmailRegexTest(s) ==
  \E i \in 1..Len(s), j \in 1..Len(s) :
    /\ s[i] = "@"
    /\ s[j] = "."
    /\ 1 < i /\ i + 1 < j /\ j < Len(s)
    /\ \A k \in (1..Len(s)) \ {i} : s[k] \notin Whitespace \cup {"@"}

\* what handleLogin decides for the fields f: the message it shows, or "ok"
LoginCheck(f) ==
  IF f.email = <<>> \/ f.password = <<>>
  THEN "Please enter both email and password"
  ELSE IF ~EmailRegexTest(f.email)
       THEN "Please enter a valid email address"
       ELSE "ok"

RegisterCheckNoConfirm(f) ==
  IF f.email = <<>> \/ f.password = <<>> \/ f.name = <<>>
  THEN "Please fill in all required fields (Name, Email, Password)"
  ELSE IF ~EmailRegexTest(f.email)
       THEN "Please enter a valid email address"
       ELSE IF Len(f.password) < MinPassword
            THEN "Password must be at least 6 characters long"
            ELSE IF Len(f.password) > MaxPassword
                 THEN "Password must be 72 characters or less"
                 ELSE "ok"

\* what handleRegister decides for the fields f: the message it shows, or "ok"
RegisterCheck(f) ==
  IF f.email = <<>> \/ f.password = <<>> \/ f.name = <<>>
  THEN "Please fill in all required fields (Name, Email, Password)"
  ELSE IF ~EmailRegexTest(f.email)
       THEN "Please enter a valid email address"
       ELSE IF Len(f.password) < MinPassword
            THEN "Password must be at least 6 characters long"
            ELSE IF Len(f.password) > MaxPassword
                 THEN "Password must be 72 characters or less"
                 ELSE IF f.password # f.confirmPassword
                      THEN "Passwords do not match. Please check and try again."
                      ELSE "ok"

\* texts a user types into the fields
FormEmails ==
  { <<>>,
    <<"a", "@", "x", ".", "c">>,
    <<"a", ".", "b", "@", "x", ".", "c", ".", "d">>,
    <<"a", "x", ".", "c">>,
    <<"a", "@", "x">>,
    <<"a", "@", ".", "c">>,
    <<"a", "@", "x", ".">>,
    <<"a", " ", "@", "x", ".", "c">>,
    <<"a", "@", "b", "@", "x", ".", "c">> }
FormPasswords ==
  { Repeat("p", n) : n \in {0, MinPassword - 1, MinPassword, MaxPassword,
                            MaxPassword + 1} }
FormNames == {<<>>, <<"N">>}

\* onChangeText of one field of the screen
TypeForm ==
  /\ Screen = "auth"
  /\ \/ \E t \in FormEmails : form' = [form EXCEPT !.email = t]
     \/ \E t \in FormPasswords : form' = [form EXCEPT !.password = t]
     \/ \E t \in FormPasswords : form' = [form EXCEPT !.confirmPassword = t]
     \/ \E t \in FormNames : form' = [form EXCEPT !.name = t]
  /\ form' # form
  /\ delivered' = Nothing
  /\ sent' = NotSent
  /\ received' = NotReceived
  /\ UNCHANGED <<store, authVars, restoreVars, taskVars, last>>
  /\ UNCHANGED screenVars

\* a handler returns after showMessage(message, 'error'): nothing is called
Refused(message) ==
  /\ delivered' = Settled("showMessage", "error", message)
  /\ sent' = NotSent
  /\ received' = NotReceived
  /\ UNCHANGED <<store, authVars, restoreVars, taskVars, last, form>>
  /\ UNCHANGED screenVars

\* handleLogin: the Login button is pressed
HandleLogin ==
  /\ Screen = "auth"
  /\ login.pc = "idle"
  /\ IF LoginCheck(form) = "ok"
     THEN LoginCall(form.email, form.password)
     ELSE Refused(LoginCheck(form))

\* handleRegister: the Register button is pressed
HandleRegister ==
  /\ Screen = "auth"
  /\ regPc = "idle"
  /\ IF RegisterCheck(form) = "ok"
     THEN RegisterCall(form.email, form.password, form.name, form.phone)
     ELSE Refused(RegisterCheck(form))

\* the auth screens in full: typing, the two buttons, and the calls they start
NextForms ==
  \/ RestoreGetUser
  \/ RestoreGetToken
  \/ TypeForm
  \/ HandleLogin
  \/ HandleRegister
  \/ LoginTokenResp
  \/ LoginMeResp
  \/ LoginSetUser
  \/ LoginSetToken
  \/ RegisterResp

FormSpec == Init /\ [][NextForms]_vars

\* ---------------------------------------------------------------- steps
Restore == RestoreGetUser \/ RestoreGetToken
Login == LoginStart \/ LoginTokenResp \/ LoginMeResp \/ LoginSetUser \/ LoginSetToken
Register == RegisterStart \/ RegisterResp
Logout == LogoutStart \/ LogoutRmUser \/ LogoutRmToken
Invalidate == \E r \in Req : ApiRmUser(r) \/ ApiRmToken(r)

\* ------------------------------------------------------------ vocabulary
StoreEmpty == store.user = Null /\ store.token = Null
StoreFull == store.user # Null /\ store.token # Null
StorePartial == ~StoreEmpty /\ ~StoreFull

Unknown == loading
Anonymous == ~loading /\ user = Null
Authenticated == ~loading /\ user # Null

\* the caller of a pipeline request that was answered 401 gets its rejection
Rejected401 == delivered = Settled("request", "rejected", "401")

\* a task is between its two storage operations
Invalidating == \E r \in Req : req[r].pc \in {"rmUser", "rmToken"}
LoginRunning == login.pc # "idle"
LogoutRunning == logoutPc # "idle"
Quiescent ==
  restorePc = "done" /\ ~LoginRunning /\ ~LogoutRunning /\ ~Invalidating

\* ------------------------------------------------------------ navigation
\* what AppContent and MainTabs can return
Representations == {"loading", "auth", "officer", "admin"}

\* routes AuthNavigator registers
AuthRoutes == {"Login", "Register", "WaitingApproval"}

\* tabs MainTabs registers when user.role === 'admin'
AdminTabs == {"AdminDashboard", "PendingApprovals", "AdminLogs",
              "UserManagement"}

\* tabs MainTabs registers otherwise
PoliceTabs == {"PoliceDashboard", "Upload", "PoliceLogs"}

\* routes MainNavigator registers beside MainTabs, whatever the role
StackRoutes == {"VerificationResult"}

\* the screens MainNavigator imports from screens/police and screens/admin
PoliceScreens == {"PoliceDashboard", "Upload", "VerificationResult",
                  "PoliceLogs"}
AdminScreens == {"AdminDashboard", "PendingApprovals", "AdminLogs",
                 "UserManagement"}

MainTabsTyped(u) ==
  IF Prop(u, "role") = "admin" THEN "admin"
  ELSE IF Prop(u, "role") = "police" THEN "officer" ELSE "none"

MainTabsApprovedOnly(u) ==
  IF Prop(u, "is_approved") # "true" THEN "auth"
  ELSE IF Prop(u, "role") = "admin" THEN "admin" ELSE "officer"

\* the tab navigator MainTabs returns for the user object u
MainTabs(u) == IF Prop(u, "role") = "admin" THEN "admin" ELSE "officer"

RouteBeforeRestore(l, u) == IF u # Null THEN MainTabs(u[1]) ELSE "auth"

\* what AppContent returns for the values useAuth() gives it
Route(l, u) ==
  IF l THEN "loading"
  ELSE IF u # Null THEN MainTabs(u[1]) ELSE "auth"

\* what is on screen
Graph == Route(loading, user)

RoutesSharedLogs(g) ==
  CASE g = "auth" -> AuthRoutes
    [] g = "officer" -> PoliceTabs \cup StackRoutes
    [] g = "admin" -> AdminTabs \cup StackRoutes \cup {"PoliceLogs"}
    [] OTHER -> {}

\* the routes registered in the navigator tree of a representation
Routes(g) ==
  CASE g = "auth" -> AuthRoutes
    [] g = "officer" -> PoliceTabs \cup StackRoutes
    [] g = "admin" -> AdminTabs \cup StackRoutes
    [] OTHER -> {}

\* role values of the User type, and a user object that carries no role
RouterRoles == {"police", "admin"}
RouterUsers ==
  {Null, Some(NoBody)} \cup
  { Some([role |-> r, is_approved |-> a]) :
      r \in RouterRoles, a \in {"true", "false"} }

\* values user.is_approved can hold
Approvals == {"true", "false", Undefined}

\* the user u with is_approved set to a, every other field as it is
WithApproval(u, a) ==
  IF u = Null THEN Null
  ELSE Some([k \in DOMAIN u[1] \cup {"is_approved"} |->
               IF k = "is_approved" THEN a ELSE u[1][k]])

\* ------------------------------------------------------ officer LogsScreen
\* `limit: 20`
PageSize == 20

\* numbers of records response.data can hold: none, a short page, a full page
PageLengths == {0, 5, PageSize}

\* response.data of a request for page pageNum that is answered with n
\* records: each record is known by the page and the place it was served at
NewLogs(pageNum, n) == [i \in 1..n |-> <<pageNum, i>>]

\* the slot a new call of a screen takes
HasFree(calls) == \E c \in Call : calls[c].pc = "idle"
FreeCall(calls) ==
  CHOOSE c \in Call :
    /\ calls[c].pc = "idle"
    /\ \A d \in Call : d < c => calls[d].pc # "idle"

\* the /auth/me bodies of an officer and of an administrator
Officer == CHOOSE p \in MePayloads : p.role = "police"
Admin == CHOOSE p \in MePayloads : p.role = "admin"

\* the state in which a login that answered /auth/me with p has resolved: no
\* tab of the graph has been visited yet
InitSession(p) ==
  /\ store = [user |-> Some(Stringify(BuildUser(p))), token |-> Some("T1")]
  /\ user = Some(BuildUser(p))
  /\ loading = FALSE
  /\ restorePc = "done"
  /\ storedUser = Null
  /\ login = IdleLogin
  /\ logoutPc = "idle"
  /\ regPc = "idle"
  /\ req = [r \in Req |-> IdleReq]
  /\ sent = NotSent
  /\ received = NotReceived
  /\ delivered = Settled("login", "resolved", "none")
  /\ last = Completed("login", Some(BuildUser(p)))
  /\ form = EmptyForm
  /\ logsScreen = UnmountedLogs
  /\ adminLogsScreen = UnmountedAdminLogs
  /\ approvalsScreen = UnmountedApprovals

\* the officer graph with the Logs tab not visited yet
InitLogs == InitSession(Officer)

\* LogsScreen renders its FlatList unless it is loading with an empty list
LogsListShown ==
  /\ logsScreen.mounted
  /\ ~(logsScreen.loading /\ logsScreen.logs = <<>>)

\* loadLogs(pageNum, refresh) up to `await api.get('/logs/', ...)`
LoadLogs(s, pageNum, refresh) ==
  /\ HasFree(s.calls)
  /\ logsScreen' =
       [s EXCEPT !.refreshing = IF refresh THEN TRUE ELSE @,
                 !.loading = IF refresh THEN @ ELSE TRUE,
                 !.calls[FreeCall(s.calls)] = Fetch(pageNum)]
  /\ sent' = Http("GET /logs/", AuthHeader(store.token),
                  [limit |-> PageSize, offset |-> pageNum * PageSize])
  /\ received' = NotReceived
  /\ delivered' = Nothing
  /\ UNCHANGED <<adminLogsScreen, approvalsScreen>>
  /\ UNCHANGED sessionVars

\* the Logs tab is opened: useEffect(() => { loadLogs(0) }, [])
MountLogs ==
  /\ Graph = "officer"
  /\ ~logsScreen.mounted
  /\ LoadLogs(MountedLogs, 0, FALSE)

\* pull to refresh: handleRefresh
HandleRefresh ==
  /\ LogsListShown
  /\ ~logsScreen.refreshing
  /\ LoadLogs(logsScreen, 0, TRUE)

\* the condition under which loadMore calls loadLogs
MayLoadMore(s) == ~s.loading /\ s.hasMore

\* onEndReached of the FlatList: loadMore
LoadMore ==
  /\ LogsListShown
  /\ MayLoadMore(logsScreen)
  /\ logsScreen.page < MaxPage
  /\ LoadLogs(logsScreen, logsScreen.page + 1, FALSE)

\* setLogs after a page has arrived: page 0 replaces, another page is appended
SetLogs(prev, pageNum, newLogs) ==
  IF pageNum = 0 THEN newLogs ELSE prev \o newLogs

\* loadLogs after `await api.get`: the try block on an answer, the catch block
\* on a rejection, then the finally block
LogsResponse(c) ==
  /\ logsScreen.mounted
  /\ logsScreen.calls[c].pc = "fetch"
  /\ \E a \in Answers, n \in PageLengths :
       LET pageNum == logsScreen.calls[c].arg
           newLogs == NewLogs(pageNum, n)
       IN /\ received' = Answer("GET /logs/", a, NoText)
          /\ logsScreen' =
               IF a = "2xx"
               THEN [logsScreen EXCEPT
                       !.logs = SetLogs(@, pageNum, newLogs),
                       !.hasMore = (Len(newLogs) = PageSize),
                       !.page = pageNum,
                       !.loading = FALSE,
                       !.refreshing = FALSE,
                       !.calls[c] = [pc |-> "idle", arg |-> 0]]
               ELSE [logsScreen EXCEPT
                       !.loading = FALSE,
                       !.refreshing = FALSE,
                       !.calls[c] = [pc |-> "idle", arg |-> 0]]
  /\ sent' = NotSent
  /\ delivered' = Nothing
  /\ UNCHANGED <<adminLogsScreen, approvalsScreen>>
  /\ UNCHANGED sessionVars

NextLogs ==
  \/ MountLogs
  \/ HandleRefresh
  \/ LoadMore
  \/ \E c \in Call : LogsResponse(c)

LogsSpec == InitLogs /\ [][NextLogs]_vars

\* the lists that are pages 0..n one after the other, each page as it can
\* be served
RECURSIVE PagesUpTo(_)
PagesUpTo(n) ==
  IF n = 0 THEN {NewLogs(0, k) : k \in PageLengths}
  ELSE {l \o NewLogs(n, k) : l \in PagesUpTo(n - 1), k \in PageLengths}

\* --------------------------------------------------------- AdminLogsScreen
\* texts the search bar can hold
Queries == {"", "7", "42"}

\* values of the verification_result filter the menu sets
ResultFilters == {Undefined, "legit"}

\* the administrator graph with no tab visited yet
InitAdminLogs == InitSession(Admin)

\* AdminLogsScreen renders its search bar, menu and FlatList unless it is
\* loading with an empty list
AdminListShown ==
  /\ adminLogsScreen.mounted
  /\ ~(adminLogsScreen.loading /\ adminLogsScreen.logs = <<>>)

\* the params of loadLogs: the filters, and user_id when searchQuery is truthy
Params(searchQuery, filters) ==
  IF searchQuery # ""
  THEN [k \in DOMAIN filters \cup {"user_id"} |->
          IF k = "user_id" THEN searchQuery ELSE filters[k]]
  ELSE filters

\* the screen s once loadLogs() of a render that holds searchQuery and
\* filters has reached `await api.get('/admin/logs', { params })`; refresh
\* says that handleRefresh awaits it
StartedLoad(s, searchQuery, filters, refresh) ==
  [s EXCEPT !.loading = TRUE,
            !.refreshing = IF refresh THEN TRUE ELSE @,
            !.calls[FreeCall(s.calls)] =
               Fetch([params |-> Params(searchQuery, filters),
                      refresh |-> refresh])]

\* the request loadLogs() dispatches
AdminRequest(searchQuery, filters) ==
  /\ sent' = Http("GET /admin/logs", AuthHeader(store.token),
                  Params(searchQuery, filters))
  /\ received' = NotReceived
  /\ delivered' = Nothing
  /\ UNCHANGED <<logsScreen, approvalsScreen>>
  /\ UNCHANGED sessionVars

\* a handler of the screen that dispatches nothing
NoAdminRequest ==
  /\ sent' = NotSent
  /\ received' = NotReceived
  /\ delivered' = Nothing
  /\ UNCHANGED <<logsScreen, approvalsScreen>>
  /\ UNCHANGED sessionVars

\* the AdminLogs tab is opened: useEffect(() => { loadLogs() }, [filters])
MountAdminLogs ==
  /\ Graph = "admin"
  /\ ~adminLogsScreen.mounted
  /\ adminLogsScreen' =
       StartedLoad(MountedAdminLogs,
                   MountedAdminLogs.searchQuery, MountedAdminLogs.filters, FALSE)
  /\ AdminRequest(MountedAdminLogs.searchQuery, MountedAdminLogs.filters)

\* pull to refresh: handleRefresh up to the await in loadLogs
AdminHandleRefresh ==
  /\ AdminListShown
  /\ ~adminLogsScreen.refreshing
  /\ HasFree(adminLogsScreen.calls)
  /\ adminLogsScreen' =
       StartedLoad(adminLogsScreen,
                   adminLogsScreen.searchQuery, adminLogsScreen.filters, TRUE)
  /\ AdminRequest(adminLogsScreen.searchQuery, adminLogsScreen.filters)

\* onChangeText of the search bar: handleSearch(query). The callback handed
\* to setTimeout keeps the searchQuery and the filters of the render that
\* created it, that is the values before setSearchQuery(query) takes effect.
HandleSearch(query) ==
  /\ AdminListShown
  /\ query # adminLogsScreen.searchQuery
  /\ Len(adminLogsScreen.timers) < MaxTimers
  /\ adminLogsScreen' =
       [adminLogsScreen EXCEPT
          !.searchQuery = query,
          !.timers = Append(@, [query |-> query,
                                searchQuery |-> adminLogsScreen.searchQuery,
                                filters |-> adminLogsScreen.filters])]
  /\ NoAdminRequest

\* the test of the timeout callback: `query === searchQuery`, searchQuery
\* being the one of the callback's render; current is the text of the search
\* bar when the timeout fires
Debounced(query, searchQuery, current) == query = searchQuery

\* a timeout of handleSearch fires (all have the same delay: first set,
\* first fired)
SearchTimeout ==
  /\ adminLogsScreen.mounted
  /\ adminLogsScreen.timers # <<>>
  /\ LET t == Head(adminLogsScreen.timers)
         rest == [adminLogsScreen EXCEPT !.timers = Tail(@)]
     IN IF Debounced(t.query, t.searchQuery, adminLogsScreen.searchQuery)
        THEN /\ HasFree(adminLogsScreen.calls)
             /\ adminLogsScreen' =
                  StartedLoad(rest, t.searchQuery, t.filters, FALSE)
             /\ AdminRequest(t.searchQuery, t.filters)
        ELSE /\ adminLogsScreen' = rest
             /\ NoAdminRequest

\* a menu item or the chip of the filter: applyFilter('verification_result',
\* value); the new filters object runs the effect, which calls loadLogs()
ApplyFilter(value) ==
  /\ AdminListShown
  /\ HasFree(adminLogsScreen.calls)
  /\ adminLogsScreen' =
       StartedLoad([adminLogsScreen EXCEPT !.filters = Filters(value)],
                   adminLogsScreen.searchQuery, Filters(value), FALSE)
  /\ AdminRequest(adminLogsScreen.searchQuery, Filters(value))

\* the Clear All button: clearFilters; the effect calls loadLogs()
ClearFilters ==
  /\ AdminListShown
  /\ \/ adminLogsScreen.filters.verification_result # Undefined
     \/ adminLogsScreen.searchQuery # ""
  /\ HasFree(adminLogsScreen.calls)
  /\ adminLogsScreen' =
       StartedLoad([adminLogsScreen EXCEPT !.filters = InitialFilters,
                                           !.searchQuery = ""],
                   "", InitialFilters, FALSE)
  /\ AdminRequest("", InitialFilters)

\* the chip of the search text is closed: setSearchQuery('')
ClearSearch ==
  /\ AdminListShown
  /\ adminLogsScreen.searchQuery # ""
  /\ adminLogsScreen' = [adminLogsScreen EXCEPT !.searchQuery = ""]
  /\ NoAdminRequest

\* response.data of a request: no record, or the records that match params
AdminData(params) == {<<>>, <<params>>}

\* loadLogs after `await api.get`: try or catch, then finally; handleRefresh,
\* when it awaited this call, goes on with setRefreshing(false)
AdminLogsResponse(c) ==
  /\ adminLogsScreen.mounted
  /\ adminLogsScreen.calls[c].pc = "fetch"
  /\ LET call == adminLogsScreen.calls[c].arg
         done == [adminLogsScreen EXCEPT
                    !.loading = FALSE,
                    !.refreshing = IF call.refresh THEN FALSE ELSE @,
                    !.calls[c] = MountedAdminLogs.calls[c]]
     IN \E a \in Answers :
          /\ received' = Answer("GET /admin/logs", a, NoText)
          /\ IF a = "2xx"
             THEN \E data \in AdminData(call.params) :
                    adminLogsScreen' = [done EXCEPT !.logs = data]
             ELSE adminLogsScreen' = done
  /\ sent' = NotSent
  /\ delivered' = Nothing
  /\ UNCHANGED <<logsScreen, approvalsScreen>>
  /\ UNCHANGED sessionVars

NextAdminLogs ==
  \/ MountAdminLogs
  \/ AdminHandleRefresh
  \/ \E query \in Queries : HandleSearch(query)
  \/ SearchTimeout
  \/ \E value \in ResultFilters : ApplyFilter(value)
  \/ ClearFilters
  \/ ClearSearch
  \/ \E c \in Call : AdminLogsResponse(c)

AdminLogsSpec == InitAdminLogs /\ [][NextAdminLogs]_vars

\* ---------------------------------------------------- PendingApprovalsScreen
\* ids of the police users that can wait for approval
PendingIds == {"u1", "u2"}

\* response.data of GET /admin/police-unapproved
PendingLists == {<<>>, <<"u1">>, <<"u2">>, <<"u1", "u2">>}

\* the administrator graph with no tab visited yet
InitApprovals == InitSession(Admin)

\* PendingApprovalsScreen renders its FlatList unless it is loading; the
\* confirmation of rejectUser, while open, takes every touch
ApprovalsListShown ==
  /\ approvalsScreen.mounted
  /\ ~approvalsScreen.loading
  /\ approvalsScreen.dialog = Null

\* the buttons of a user item: `disabled={processing !== null}`
ButtonsEnabled == approvalsScreen.processing = Null

\* a request of the screen is dispatched
ApprovalsRequest(url) ==
  /\ sent' = Http(url, AuthHeader(store.token), NoBody)
  /\ received' = NotReceived
  /\ delivered' = Nothing
  /\ UNCHANGED <<logsScreen, adminLogsScreen>>
  /\ UNCHANGED sessionVars

\* loadPendingUsers up to `await api.get('/admin/police-unapproved')`
LoadPendingUsers(s, refresh) ==
  [s EXCEPT !.loading = TRUE,
            !.refreshing = IF refresh THEN TRUE ELSE @,
            !.calls[FreeCall(s.calls)] =
               Fetch([op |-> "load", userId |-> "", refresh |-> refresh])]

\* the PendingApprovals tab is opened: useEffect(() => { loadPendingUsers() }, [])
MountApprovals ==
  /\ Graph = "admin"
  /\ ~approvalsScreen.mounted
  /\ approvalsScreen' = LoadPendingUsers(MountedApprovals, FALSE)
  /\ ApprovalsRequest("GET /admin/police-unapproved")

\* pull to refresh: handleRefresh up to the await in loadPendingUsers
ApprovalsRefresh ==
  /\ ApprovalsListShown
  /\ ~approvalsScreen.refreshing
  /\ HasFree(approvalsScreen.calls)
  /\ approvalsScreen' = LoadPendingUsers(approvalsScreen, TRUE)
  /\ ApprovalsRequest("GET /admin/police-unapproved")

\* loadPendingUsers after its await: try or catch, then finally; handleRefresh,
\* when it awaited this call, goes on with setRefreshing(false)
PendingUsersResponse(c) ==
  /\ approvalsScreen.mounted
  /\ approvalsScreen.calls[c].pc = "fetch"
  /\ approvalsScreen.calls[c].arg.op = "load"
  /\ LET call == approvalsScreen.calls[c].arg
         done == [approvalsScreen EXCEPT
                    !.loading = FALSE,
                    !.refreshing = IF call.refresh THEN FALSE ELSE @,
                    !.calls[c] = MountedApprovals.calls[c]]
     IN \E a \in Answers :
          /\ received' = Answer("GET /admin/police-unapproved", a, NoText)
          /\ IF a = "2xx"
             THEN /\ \E data \in PendingLists :
                       approvalsScreen' = [done EXCEPT !.users = data]
                  /\ delivered' = Nothing
             ELSE /\ approvalsScreen' = done
                  /\ delivered' = Settled("Alert", "Error",
                                          "Failed to load pending approvals")
  /\ sent' = NotSent
  /\ UNCHANGED <<logsScreen, adminLogsScreen>>
  /\ UNCHANGED sessionVars

\* approveUser(userId), or the Reject button of the confirmation, up to
\* `await api.post(...)`: setProcessing(userId)
Processing(s, op, userId) ==
  [s EXCEPT !.processing = Some(userId),
            !.dialog = Null,
            !.calls[FreeCall(s.calls)] =
               Fetch([op |-> op, userId |-> userId, refresh |-> FALSE])]

\* the Approve button of a user item: approveUser(item.id)
ApproveUser(userId) ==
  /\ ApprovalsListShown
  /\ ButtonsEnabled
  /\ \E i \in DOMAIN approvalsScreen.users : approvalsScreen.users[i] = userId
  /\ HasFree(approvalsScreen.calls)
  /\ approvalsScreen' = Processing(approvalsScreen, "approve", userId)
  /\ ApprovalsRequest("POST /admin/approve-police/" \o userId)

\* the Reject button of a user item: rejectUser(item.id) opens the confirmation
RejectUser(userId) ==
  /\ ApprovalsListShown
  /\ ButtonsEnabled
  /\ \E i \in DOMAIN approvalsScreen.users : approvalsScreen.users[i] = userId
  /\ approvalsScreen' = [approvalsScreen EXCEPT !.dialog = Some(userId)]
  /\ sent' = NotSent
  /\ received' = NotReceived
  /\ delivered' = Settled("Alert", "Reject User", userId)
  /\ UNCHANGED <<logsScreen, adminLogsScreen>>
  /\ UNCHANGED sessionVars

\* the Cancel button of the confirmation
CancelReject ==
  /\ approvalsScreen.mounted
  /\ approvalsScreen.dialog # Null
  /\ approvalsScreen' = [approvalsScreen EXCEPT !.dialog = Null]
  /\ sent' = NotSent
  /\ received' = NotReceived
  /\ delivered' = Nothing
  /\ UNCHANGED <<logsScreen, adminLogsScreen>>
  /\ UNCHANGED sessionVars

\* the Reject button of the confirmation: its onPress
ConfirmReject ==
  /\ approvalsScreen.mounted
  /\ approvalsScreen.dialog # Null
  /\ HasFree(approvalsScreen.calls)
  /\ approvalsScreen' =
       Processing(approvalsScreen, "reject", approvalsScreen.dialog[1])
  /\ ApprovalsRequest("POST /admin/reject-police/" \o approvalsScreen.dialog[1])

RemovedNone(prev, userId) == prev

\* setUsers(prev => prev.filter(user => user.id !== userId))
Removed(prev, userId) == SelectSeq(prev, LAMBDA id : id # userId)

\* approveUser, or the onPress of the confirmation, after its await: try or
\* catch, then finally
DecisionResponse(c) ==
  /\ approvalsScreen.mounted
  /\ approvalsScreen.calls[c].pc = "fetch"
  /\ approvalsScreen.calls[c].arg.op \in {"approve", "reject"}
  /\ LET call == approvalsScreen.calls[c].arg
         done == [approvalsScreen EXCEPT
                    !.processing = Null,
                    !.calls[c] = MountedApprovals.calls[c]]
     IN \E a \in Answers :
          /\ received' = Answer(IF call.op = "approve"
                                THEN "POST /admin/approve-police/" \o call.userId
                                ELSE "POST /admin/reject-police/" \o call.userId,
                                a, NoText)
          /\ IF a = "2xx"
             THEN /\ approvalsScreen' =
                       [done EXCEPT !.users = Removed(@, call.userId)]
                  /\ delivered' =
                       Settled("Alert", "Success",
                               IF call.op = "approve"
                               THEN "Police user approved successfully"
                               ELSE "Police user rejected successfully")
             ELSE /\ approvalsScreen' = done
                  /\ delivered' =
                       Settled("Alert", "Error",
                               IF call.op = "approve"
                               THEN "Failed to approve user"
                               ELSE "Failed to reject user")
  /\ sent' = NotSent
  /\ UNCHANGED <<logsScreen, adminLogsScreen>>
  /\ UNCHANGED sessionVars

NextApprovals ==
  \/ MountApprovals
  \/ ApprovalsRefresh
  \/ \E c \in Call : PendingUsersResponse(c)
  \/ \E userId \in PendingIds : ApproveUser(userId)
  \/ \E userId \in PendingIds : RejectUser(userId)
  \/ CancelReject
  \/ ConfirmReject
  \/ \E c \in Call : DecisionResponse(c)

ApprovalsSpec == InitApprovals /\ [][NextApprovals]_vars

\* the approve and reject requests that await their answer
Deciding ==
  {c \in Call : /\ approvalsScreen.mounted
                /\ approvalsScreen.calls[c].pc = "fetch"
                /\ approvalsScreen.calls[c].arg.op \in {"approve", "reject"}}

\* ---------------------------------------------------------------- claims

\* C1: when the rejection of a request that was answered 401 is delivered to
\* its caller, the store holds neither key and the in-memory user is absent.
C1_Rejected401LoggedOut == Rejected401 => (StoreEmpty /\ user = Null)

\* C2: once restore has finished, the user is present if and only if the
\* token of the session is present.  AuthProvider keeps no token in memory: the
\* token of the session is the one under the 'token' key, which the pipeline
\* attaches.
C2_UserIffToken == ~loading => ((user # Null) <=> (store.token # Null))

\* C3: a restore() that read no user, or read a user and no token, or a token
\* and no user, ends with the user absent.
C3_RestoreFallback ==
  [][(restorePc = "getToken" /\ restorePc' = "done"
        /\ (storedUser = Null \/ store.token = Null))
       => user' = Null]_vars

\* C4: in the step in which login() resolves, the store holds the serialized
\* user that /auth/me returned and the token that /auth/login returned, and
\* the in-memory user, set in that step and not before, is that user.
C4_LoginPersistsPair ==
  [][(login.pc = "setToken" /\ delivered'.op = "login"
        /\ delivered'.result = "resolved")
       => /\ store'.user = Some(Stringify(login.user[1]))
          /\ store'.token = login.token
          /\ user' = login.user
          /\ SameObject(Parse(store'.user[1]), user'[1])]_vars

\* C5: a login() whose /auth/me fetch fails settles as a rejection in that
\* step, which changes neither the store nor the session and drops the token;
\* the steps of login() before it changed neither the store nor the session.
C5_MeFailureRejects ==
  [][/\ (login.pc = "fetchMe" /\ delivered'.op = "login")
          => /\ delivered'.result = "rejected"
             /\ UNCHANGED <<store, user, loading>>
             /\ login' = IdleLogin
     /\ (login.pc \in {"idle", "fetchLogin"}
           /\ login'.pc \in {"fetchLogin", "fetchMe"} /\ login'.pc # login.pc)
          => UNCHANGED <<store, user, loading>>]_vars

C5_Witness ==
  /\ delivered = Settled("login", "rejected", "Failed to get user details")
  /\ login = IdleLogin
  /\ StoreEmpty

\* C6: logout() always resolves, and when it does the in-memory user is
\* absent, also when a removeItem threw.
C6_LogoutFailOpen ==
  delivered.op = "logout" => (delivered.result = "resolved" /\ user = Null)

C6_Witness ==
  /\ delivered = Settled("logout", "resolved", "storage error")
  /\ ~StoreEmpty
  /\ user = Null

\* C7: when restore has finished and no login, logout or 401 handling is
\* running, the store is empty exactly when the session is Anonymous and
\* full exactly when it is Authenticated.
C7_StoreMirrorsSession ==
  Quiescent => /\ StoreEmpty <=> Anonymous
               /\ StoreFull <=> Authenticated

\* C8: when login, logout or a 401 handling has returned and none of them
\* is running, the store holds both keys or neither.
C8_NoPartialStore ==
  ((delivered.op \in {"login", "logout"} \/ Rejected401)
     /\ ~LoginRunning /\ ~LogoutRunning /\ ~Invalidating)
    => ~StorePartial

C10_RegisterNoEffect ==
  [][/\ (regPc = "idle" /\ regPc' = "fetch")
          => /\ UNCHANGED <<store, user, loading>>
             /\ sent'.url = "POST /auth/register"
             /\ sent'.body["role"] = "police"
     /\ (regPc = "fetch" /\ delivered'.op = "register")
          => UNCHANGED <<store, user, loading>>]_vars

C10_Witness ==
  /\ delivered = Settled("register", "resolved", "none")
  /\ user = Null
  /\ StoreEmpty

\* C11: whatever the Session status and the role, the Role Router renders
\* exactly one of the four representations (loading, unauthenticated graph,
\* officer graph, administrator graph): never none, never two.
C11_ExactlyOneRepresentation ==
  /\ Cardinality({g \in Representations : g = Graph}) = 1
  /\ \A l \in BOOLEAN, u \in RouterUsers :
       Cardinality({g \in Representations : g = Route(l, u)}) = 1

C11_Witness ==
  /\ Authenticated
  /\ Graph = "admin"
  /\ \E r \in Req : req[r].pc = "inflight"

\* C12: the Role Router selects the unauthenticated graph (Login, Register,
\* WaitingApproval) exactly when the Session is Anonymous, the officer graph
\* exactly when it is Authenticated with role police, the administrator
\* graph exactly when it is Authenticated with role admin; the officer graph
\* exposes no administrator screen and the administrator graph no officer
\* screen.
C12_RoleGraphsDisjoint ==
  /\ (Graph = "auth") <=> Anonymous
  /\ (Graph = "officer") <=> (Authenticated /\ Prop(user[1], "role") = "police")
  /\ (Graph = "admin") <=> (Authenticated /\ Prop(user[1], "role") = "admin")
  /\ Graph = "auth" => Routes(Graph) = {"Login", "Register", "WaitingApproval"}
  /\ Graph = "officer" => Routes(Graph) \cap AdminScreens = {}
  /\ Graph = "admin" => Routes(Graph) \cap PoliceScreens = {}

\* C12 amended: the same selection by status and role; the officer graph
\* registers no administrator screen, and the only officer screen the
\* administrator graph registers is VerificationResult, which MainNavigator
\* adds to its stack for every authenticated user.
C12_RoleGraphsShareResult ==
  /\ (Graph = "auth") <=> Anonymous
  /\ (Graph = "officer") <=> (Authenticated /\ Prop(user[1], "role") = "police")
  /\ (Graph = "admin") <=> (Authenticated /\ Prop(user[1], "role") = "admin")
  /\ Graph = "auth" => Routes(Graph) = {"Login", "Register", "WaitingApproval"}
  /\ Graph = "officer" => Routes(Graph) \cap AdminScreens = {}
  /\ Graph = "admin" => Routes(Graph) \cap PoliceScreens = {"VerificationResult"}

C12_Witness ==
  /\ Graph = "admin"
  /\ "VerificationResult" \in Routes(Graph)
  /\ delivered = Settled("login", "resolved", "none")

\* C13: while the Session is Unknown, that is as long as loadStoredUser has
\* not finished by success or by fallback, the Role Router renders the
\* loading representation only: no route of any graph is registered.
C13_LoadingUntilRestored ==
  (Unknown \/ restorePc # "done") => (Graph = "loading" /\ Routes(Graph) = {})

C13_Witness ==
  /\ restorePc = "getToken"
  /\ storedUser # Null
  /\ Graph = "loading"

\* C14: a pipeline request that gets no response (no connectivity, timeout)
\* is rejected to its caller and changes neither the Session nor a key of
\* the store; a login whose POST /auth/login gets no response rejects and
\* changes neither as well.
C14_TransportErrorNoEffect ==
  [][ /\ (received'.url = "api" /\ received'.status = "transport")
         => /\ delivered'.op = "request"
            /\ delivered'.result = "rejected"
            /\ UNCHANGED <<store, user, loading>>
      /\ (received'.url = "POST /auth/login" /\ received'.status = "transport")
         => /\ delivered'.op = "login"
            /\ delivered'.result = "rejected"
            /\ login' = IdleLogin
            /\ UNCHANGED <<store, user, loading>> ]_vars

C14_Witness ==
  /\ received = Answer("api", "transport", NoText)
  /\ delivered = Settled("request", "rejected", "transport")
  /\ StoreFull
  /\ Authenticated

\* C15: when POST /auth/login is answered with a non-2xx status, login
\* rejects with the detail string of the body, or with 'Login failed' when
\* the body has none; GET /auth/me is not requested, the Session stays
\* Anonymous and the store is not written.
C15_LoginRefused ==
  [][ (received'.url = "POST /auth/login" /\ received'.status = "non2xx")
      => /\ delivered' =
              Settled("login", "rejected",
                      IF /\ received'.body.wellFormed
                         /\ "detail" \in DOMAIN received'.body.fields
                      THEN received'.body.fields["detail"]
                      ELSE "Login failed")
         /\ sent' = NotSent
         /\ login' = IdleLogin
         /\ Anonymous /\ Anonymous'
         /\ UNCHANGED store ]_vars

C15_Witness ==
  /\ received.url = "POST /auth/login"
  /\ received.status = "non2xx"
  /\ delivered = Settled("login", "rejected", "Account not approved")
  /\ Anonymous
  /\ login = IdleLogin

\* C16: if a store write fails during login (the user write or the token
\* write), login rejects, the session is not set to Authenticated, and the
\* store is left without partial persistence: it does not hold a key this
\* login has written.
C16_FailedWriteLeavesNothing ==
  [][ (/\ login.pc \in {"setUser", "setToken"}
       /\ delivered'.op = "login"
       /\ delivered'.result = "rejected")
      => /\ user' = Null
         /\ ~(/\ login.pc = "setToken"
              /\ store'.user = Some(Stringify(login.user[1]))) ]_vars

\* C17: if a store read throws during restore, or the stored user value
\* cannot be parsed, restore ends with the Session Anonymous and the app
\* has left the loading state.
C17_RestoreFailsSafe ==
  (/\ delivered.op = "restore"
   /\ \/ delivered.message = "storage error"
      \/ (store.user # Null /\ ~store.user[1].wellFormed))
  => (Anonymous /\ restorePc = "done" /\ Graph = "auth")

C17_Witness ==
  /\ delivered.op = "restore"
  /\ store.user \in {Some(t) : t \in CorruptTexts}
  /\ store.token # Null
  /\ Anonymous

\* C18: after a login that succeeded and was followed by no logout and no
\* 401 invalidation, a restart followed by restore gives Authenticated with
\* the user that login stored; after a logout that completed without store
\* errors, a restart followed by restore gives Anonymous.
C18_RestartRoundTrip ==
  delivered = Settled("restore", "resolved", "none")
  => /\ last.op = "login"
        => (Authenticated /\ user # Null /\ SameObject(user[1], last.user[1]))
     /\ last.op = "logout" => Anonymous

\* C19: the graph the Role Router chooses does not depend on
\* user.is_approved: two Sessions that differ in the value of is_approved
\* only are routed to the same graph.
C19_RoutingIgnoresApproval ==
  /\ \A a \in Approvals : Route(loading, WithApproval(user, a)) = Graph
  /\ \A l \in BOOLEAN, u \in RouterUsers, a \in Approvals :
       Route(l, WithApproval(u, a)) = Route(l, u)

C19_Witness ==
  /\ Graph = "officer"
  /\ Prop(user[1], "is_approved") = "true"
  /\ Route(loading, WithApproval(user, "false")) = "officer"

\* C20: register rejects exactly when POST /auth/register is answered with
\* a non-2xx status or gets no response; on a non-2xx answer the message is
\* the detail string of the body, or 'Registration failed' when the body
\* has none; on 2xx register resolves.
C20_RegisterOutcome ==
  /\ delivered.op = "register" <=> received.url = "POST /auth/register"
  /\ delivered.op = "register"
     => /\ (delivered.result = "rejected")
           <=> (received.status \in {"non2xx", "transport"})
        /\ (delivered.result = "resolved") <=> (received.status = "2xx")
        /\ received.status = "non2xx"
           => delivered.message =
                IF /\ received.body.wellFormed
                   /\ "detail" \in DOMAIN received.body.fields
                THEN received.body.fields["detail"]
                ELSE "Registration failed"

C20_Witness ==
  /\ received.url = "POST /auth/register"
  /\ received.status = "non2xx"
  /\ ~received.body.wellFormed
  /\ delivered = Settled("register", "rejected", "Registration failed")

\* C21: validation errors never reach the network: login is called only
\* with a non-empty password and an email that matches the pattern; register
\* only with a non-empty name, an email that matches the pattern, a password
\* of 6 to 72 characters and a confirmation equal to the password.
C21_ValidatedBeforeNetwork ==
  LET matching == { <<"a", "@", "x", ".", "c">>,
                    <<"a", ".", "b", "@", "x", ".", "c", ".", "d">> }
  IN /\ sent.url = "POST /auth/login"
        => /\ form.email \in matching
           /\ form.password # <<>>
           /\ sent.body = [username |-> form.email, password |-> form.password]
     /\ sent.url = "POST /auth/register"
        => /\ form.name # <<>>
           /\ form.email \in matching
           /\ Len(form.password) >= 6 /\ Len(form.password) <= 72
           /\ form.password = form.confirmPassword
           /\ sent.body["email"] = form.email
           /\ sent.body["password"] = form.password

C21_Witness ==
  /\ sent.url = "POST /auth/register"
  /\ Len(form.password) = 72
  /\ form.email = <<"a", ".", "b", "@", "x", ".", "c", ".", "d">>

\* C22: once the Session has left Unknown, no step of the running app puts
\* it back in the loading state, and its status changes only from Anonymous
\* to Authenticated, by login, and from Authenticated to Anonymous, by logout
\* or by the 401 branch.
C22_StatusEdges ==
  [][ /\ (~Unknown /\ Unknown') => Restart
      /\ (Unknown /\ ~Unknown') => (RestoreGetUser \/ RestoreGetToken)
      /\ (Anonymous /\ Authenticated') => LoginSetToken
      /\ (Authenticated /\ Anonymous')
         => (LogoutRmUser \/ LogoutRmToken \/ \E r \in Req : ApiRmToken(r)) ]_vars

C22_Witness ==
  /\ Anonymous
  /\ last.op = "logout"
  /\ \E r \in Req : req[r].pc = "rmToken"
  /\ regPc = "fetch"

\* C23: the Session is set to Authenticated only by a step that holds both a
\* user and a token from a successful exchange: the last step of a login
\* that got its token from /auth/login and its user from /auth/me, or a
\* restore that read a stored user and a stored token; no step sets
\* Authenticated while the token is missing.
C23_AuthenticatedWithToken ==
  [][ (~Authenticated /\ Authenticated')
      => \/ /\ LoginSetToken
            /\ login.user # Null /\ login.token # Null
            /\ store'.token = login.token
         \/ /\ RestoreGetToken
            /\ storedUser # Null /\ store.token # Null ]_vars

\* C24: from an Authenticated state, the 401 handling reaches the state that
\* logout() reaches: the store holds neither key and the in-memory Session is
\* Anonymous.
C24_InvalidationAsLogout ==
  [][ /\ (Authenticated /\ delivered' = Settled("logout", "resolved", "none"))
         => (StoreEmpty' /\ Anonymous')
      /\ (Authenticated /\ delivered' = Settled("request", "rejected", "401"))
         => (StoreEmpty' /\ Anonymous') ]_vars

\* C25: after a 401 rejection has been delivered to a caller, no request
\* issued later carries the rejected token, unless a later successful login
\* has stored a token again: the rejection is delivered with no token left
\* in the store, only the last step of a login that resolves puts a token
\* there, and a request carries what the store holds when it is dispatched.
C25_DeadTokenNotReused ==
  [][ /\ delivered' = Settled("request", "rejected", "401")
         => store'.token = Null
      /\ (store'.token # Null /\ store'.token # store.token)
         => (LoginSetToken /\ delivered' = Settled("login", "resolved", "none"))
      /\ (sent'.url = "api" /\ store.token = Null) => sent'.auth = Null ]_vars

C25_Witness ==
  /\ delivered = Settled("request", "rejected", "401")
  /\ store.token = Null
  /\ Authenticated
  /\ \E r \in Req : req[r].pc = "attach"

\* C26: the request interceptor reads the token from the store when the
\* request is dispatched, not from the in-memory Session: the request
\* carries an Authorization header if and only if the store holds a token at
\* that moment, and the header is 'Bearer ' followed by that stored value.
C26_HeaderFromStore ==
  sent.url = "api"
  => /\ (sent.auth # Null) <=> (store.token # Null)
     /\ store.token # Null => sent.auth = <<(<<"Bearer", store.token[1]>>)>>

C26_Witness ==
  /\ sent.url = "api"
  /\ sent.auth # Null
  /\ Anonymous

\* C27: for an answer whose status is not 401 the pipeline leaves the store
\* and the Session as they are and hands its caller the outcome it received,
\* a success resolved and an error rejected; a 401 is rejected to the caller
\* as well, never swallowed.
C27_PassThrough ==
  [][ /\ (received'.url = "api" /\ received'.status # "401")
         => /\ UNCHANGED <<store, user, loading>>
            /\ delivered'.op = "request"
            /\ delivered'.message = received'.status
            /\ (delivered'.result = "resolved") <=> (received'.status = "2xx")
            /\ (delivered'.result = "rejected") <=> (received'.status # "2xx")
      /\ (received'.url = "api" /\ received'.status = "401")
         => delivered' = Nothing
      /\ \A r \in Req :
           (req[r].pc \in {"rmUser", "rmToken"} /\ req'[r].pc = "idle"
              /\ ~Unknown')
           => (delivered'.op = "request" /\ delivered'.result = "rejected") ]_vars

C27_Witness ==
  /\ received = Answer("api", "500", NoText)
  /\ delivered = Settled("request", "rejected", "500")
  /\ StoreFull
  /\ Authenticated
  /\ \E r \in Req : req[r].pc = "rmUser"

\* C28: when logout() runs without store errors, the keys are removed before
\* the in-memory Session is set to Anonymous: the user stays set while the
\* removals are under way, and when logout() resolves the store holds
\* neither key and the in-memory user is absent.
C28_LogoutClearsStoreFirst ==
  /\ logoutPc \in {"rmUser", "rmToken"} => user # Null
  /\ logoutPc = "rmToken" => store.user = Null
  /\ delivered = Settled("logout", "resolved", "none")
     => (StoreEmpty /\ user = Null /\ logoutPc = "idle")

C28_Witness ==
  /\ logoutPc = "rmToken"
  /\ store.user = Null
  /\ store.token # Null
  /\ Authenticated

\* C29: once login or restore has resolved with the Session Authenticated,
\* every later read sees that value or the result of a later transition:
\* no task that sets the Session from what it read earlier (restore, login)
\* is in flight while the Session is Authenticated, and the value changes
\* only by a logout step that removes it (or the end of the process).
C29_MonotonicVisibility ==
  [][ /\ Authenticated => (restorePc = "done" /\ login.pc = "idle")
      /\ login.pc # "idle" => (Anonymous /\ logoutPc = "idle")
      /\ restorePc # "done" => (user = Null /\ login.pc = "idle"
                                 /\ logoutPc = "idle")
      /\ (Authenticated /\ user' # user)
         => /\ user' = Null
            /\ LogoutRmUser \/ LogoutRmToken \/ Restart ]_vars

C29_Witness ==
  /\ delivered = Settled("login", "resolved", "none")
  /\ Authenticated
  /\ regPc = "fetch"
  /\ \E r \in Req : req[r].pc = "rmToken"

\* C30: nothing is retried: a request is sent only by the step of its own
\* stage (POST /auth/login when login is called, GET /auth/me when the token
\* has arrived, POST /auth/register when register is called, a pipeline
\* request when its header has been set), no call goes back to a stage that
\* sends, and a step that receives an answer sends nothing but the /auth/me
\* that follows a token.
C30_NoRetry ==
  [][ /\ sent'.url = "POST /auth/login"
         => (login.pc = "idle" /\ login'.pc = "fetchLogin")
      /\ sent'.url = "GET /auth/me"
         => (login.pc = "fetchLogin" /\ login'.pc = "fetchMe"
             /\ received'.status = "2xx")
      /\ sent'.url = "POST /auth/register"
         => (regPc = "idle" /\ regPc' = "fetch")
      /\ sent'.url = "api"
         => \E r \in Req : req[r].pc = "attach" /\ req'[r].pc = "inflight"
      /\ login'.pc = "fetchLogin" => login.pc \in {"idle", "fetchLogin"}
      /\ login'.pc = "fetchMe" => login.pc \in {"fetchLogin", "fetchMe"}
      /\ regPc' = "fetch" => regPc \in {"idle", "fetch"}
      /\ \A r \in Req :
           /\ req'[r].pc = "attach" => req[r].pc \in {"idle", "attach"}
           /\ req'[r].pc = "inflight" => req[r].pc \in {"attach", "inflight"}
      /\ received'.url # "none" => sent'.url \in {"none", "GET /auth/me"} ]_vars

C30_Witness ==
  /\ received = Answer("GET /auth/me", "transport", NoText)
  /\ delivered = Settled("login", "rejected", "Network request failed")
  /\ sent = NotSent
  /\ login = IdleLogin

\* a pipeline request whose header is not the header of the stored token:
\* the session that issued it has been replaced while it was in flight
Stale(r) ==
  /\ req[r].pc = "inflight"
  /\ req[r].auth # Null
  /\ store.token # Null
  /\ req[r].auth # AuthHeader(store.token)

\* C31: a 401 answer to a request issued under an earlier session (its header
\* carries a token other than the stored one) leaves the stored pair of the
\* newer session and the Authenticated session intact: the request is
\* rejected and no removal of a key is started for it.
C31_Stale401Harmless ==
  [][\A r \in Req :
       ( /\ Stale(r) /\ StoreFull /\ Authenticated
         /\ received' = Answer("api", "401", NoText)
         /\ req'[r] # req[r] )
       => /\ req'[r].pc \notin {"rmUser", "rmToken"}
          /\ store' = store
          /\ Authenticated' ]_vars

\* C32: once logout() has resolved, with or without a store error, and no
\* login has completed since, a restore that follows a restart ends
\* Anonymous and no pipeline request is sent with a bearer token.
C32_LogoutIsFinal ==
  last.op \in {"logout", "logout, storage error"}
  => /\ delivered.op = "restore" => Anonymous
     /\ sent.url = "api" => sent.auth = Null

\* C33: restore terminates whatever the store reads return: in a process
\* that is not restarted for ever, the loading flag eventually becomes false
\* and stays false, with loadStoredUser finished, given that each store read
\* settles.
C33_RestoreTerminates ==
  <>[][~Restart]_vars => <>[](~Unknown /\ restorePc = "done")

C33_Witness ==
  /\ delivered = Settled("restore", "resolved", "storage error")
  /\ store.user \in {Some(t) : t \in StoredTexts \ CorruptTexts}
  /\ ~Unknown
  /\ restorePc = "done"
  /\ Graph = "auth"

\* C34: when the store holds a user record at startup, the unauthenticated
\* graph is not rendered on the way to the authenticated graph: from the
\* start of loadStoredUser to the step that sets the restored user the
\* loading representation is rendered, and that step goes from it straight
\* to the graph of the user's role (no state with loading false and the
\* user absent lies between).
C34_NoAuthGraphFlash ==
  [][ ( /\ restorePc # "done"
        /\ store.user # Null
        /\ ~ParseThrows(store.user[1]) )
      => /\ Graph = "loading"
         /\ restorePc' # "done" => Graph' = "loading"
         /\ (restorePc' = "done" /\ user' # Null)
            => /\ user' = Some(Parse(store.user[1]))
               /\ Graph' \in {"officer", "admin"}
         /\ (restorePc' = "done" /\ user' = Null)
            => delivered' = Settled("restore", "resolved", "storage error") ]_vars

C34_Witness ==
  /\ delivered = Settled("restore", "resolved", "none")
  /\ store.user # Null
  /\ user = Some(Parse(store.user[1]))
  /\ Graph = "officer"
  /\ last = NoHistory

\* C35: in the officer logs screen, under every interleaving of the initial
\* load, pull-to-refresh and load-more requests and their answers, the
\* displayed list is the concatenation of the server pages 0..page in order
\* (or still empty because no page has arrived), no page twice, none skipped.
C35_ListIsPages ==
  logsScreen.mounted
  => \/ logsScreen.logs = <<>>
     \/ logsScreen.logs \in PagesUpTo(logsScreen.page)

\* C36: in the officer logs screen, loadMore issues its request for page + 1
\* only when no load is flagged in progress (neither loading nor refreshing)
\* and the last page loaded held exactly PageSize records; a load that fails
\* leaves the list, the page number and hasMore as they were; every load,
\* successful or failed, ends with loading and refreshing both false.
C36_LoadMoreGuarded ==
  [][ /\ (sent'.url = "GET /logs/" /\ sent'.body.offset # 0)
         => /\ sent'.body.offset = (logsScreen.page + 1) * PageSize
            /\ ~logsScreen.loading
            /\ ~logsScreen.refreshing
            /\ logsScreen.logs # <<>>
            /\ logsScreen.logs[Len(logsScreen.logs)]
                 = <<logsScreen.page, PageSize>>
      /\ (received'.url = "GET /logs/" /\ received'.status # "2xx")
         => /\ logsScreen'.logs = logsScreen.logs
            /\ logsScreen'.page = logsScreen.page
            /\ logsScreen'.hasMore = logsScreen.hasMore
      /\ received'.url = "GET /logs/"
         => (~logsScreen'.loading /\ ~logsScreen'.refreshing) ]_vars

\* C37: in the administrator logs screen the search is debounced: when the
\* timeout set by a change of the search text to q fires and the text has
\* not changed since (no later timeout is pending, the text is still q),
\* exactly one /admin/logs request is issued, whose user_id parameter is q;
\* the timeout of a text that was replaced before it fired issues nothing.
C37_SearchDebounced ==
  [][ ( /\ adminLogsScreen.mounted
        /\ adminLogsScreen.timers # <<>>
        /\ adminLogsScreen'.timers = Tail(adminLogsScreen.timers) )
      => LET q == Head(adminLogsScreen.timers).query
         IN IF Len(adminLogsScreen.timers) = 1
               /\ adminLogsScreen.searchQuery = q
            THEN /\ sent'.url = "GET /admin/logs"
                 /\ Prop(sent'.body, "user_id")
                      = (IF q = "" THEN Undefined ELSE q)
            ELSE sent' = NotSent ]_vars

\* C38: in the pending-approvals screen the answer to an approve or reject
\* request for a user removes that user from the displayed list (and nobody
\* else) when the request succeeded and leaves the list as it is when it
\* failed; besides, only the answer to a list load changes the list. At most
\* one approve or reject request is in progress at a time: a request starts
\* only while processing is null and none is in progress, processing names
\* the user of the request in progress, and the answer, success or failure,
\* resets processing to null.
C38_RemovedIffSucceeded ==
  [][ /\ Cardinality(Deciding) <= 1
      /\ \A c \in Deciding :
           approvalsScreen.processing
             = Some(approvalsScreen.calls[c].arg.userId)
      /\ \A c \in Deciding' \ Deciding :
           /\ Deciding = {}
           /\ approvalsScreen.processing = Null
      /\ \A c \in Deciding \ Deciding' :
           /\ approvalsScreen'.processing = Null
           /\ approvalsScreen'.users =
                IF received'.status = "2xx"
                THEN SelectSeq(approvalsScreen.users,
                               LAMBDA id : id # approvalsScreen.calls[c].arg.userId)
                ELSE approvalsScreen.users
      /\ ( /\ approvalsScreen.mounted
            /\ approvalsScreen'.users # approvalsScreen.users )
         => /\ received'.status = "2xx"
            /\ \/ Deciding \ Deciding' # {}
               \/ received'.url = "GET /admin/police-unapproved" ]_vars

C38_Witness ==
  /\ delivered = Settled("Alert", "Success", "Police user rejected successfully")
  /\ received.status = "2xx"
  /\ approvalsScreen.users = <<"u1">>
  /\ approvalsScreen.processing = Null
  /\ Deciding = {}

====
